---- MODULE Spec2Model ----
(***************************************************************************)
(* Model of backend/serial_reader.py: the serial ingest / prediction /      *)
(* actuation pipeline of the water safety system.                           *)
(*                                                                          *)
(* Text is modelled as a sequence of one-character strings, so that         *)
(* str.split, float(), str.upper, the "in" substring test and slicing are   *)
(* computed on the characters as Python computes them.                      *)
(***************************************************************************)
EXTENDS Integers, Sequences, FiniteSets, Bags, TLC

(***************************************************************************)
(* Text helpers                                                             *)
(***************************************************************************)
\* LET x == v IN F(x), with v evaluated once however often F uses it.
With(v, F(_)) == CHOOSE r \in {F(x) : x \in {v}} : TRUE

Digits == {"0", "1", "2", "3", "4", "5", "6", "7", "8", "9"}

DigitVal(c) ==
    CASE c = "0" -> 0 [] c = "1" -> 1 [] c = "2" -> 2 [] c = "3" -> 3
      [] c = "4" -> 4 [] c = "5" -> 5 [] c = "6" -> 6 [] c = "7" -> 7
      [] c = "8" -> 8 [] c = "9" -> 9

\* The characters str.strip() and float() treat as white space.
IsSpace(c) == c \in {" ", "\t", "\r", "\n"}

RECURSIVE LStrip(_)
LStrip(s) == IF s # <<>> /\ IsSpace(Head(s)) THEN LStrip(Tail(s)) ELSE s

RECURSIVE RStrip(_)
RStrip(s) ==
    IF s # <<>> /\ IsSpace(s[Len(s)]) THEN RStrip(SubSeq(s, 1, Len(s) - 1)) ELSE s

\* str.strip()
strip(s) == RStrip(LStrip(s))

\* str.split(','): the pieces between the commas; k commas give k+1 pieces,
\* so the empty line gives one empty piece.
RECURSIVE SplitFrom(_, _, _)
SplitFrom(s, cur, acc) ==
    IF s = <<>> THEN Append(acc, cur)
    ELSE IF Head(s) = "," THEN SplitFrom(Tail(s), <<>>, Append(acc, cur))
    ELSE SplitFrom(Tail(s), Append(cur, Head(s)), acc)

split(line) == SplitFrom(line, <<>>, <<>>)

\* ','.join(fields): how the device frames a line.
RECURSIVE Join(_)
Join(fields) ==
    IF Len(fields) = 0 THEN <<>>
    ELSE IF Len(fields) = 1 THEN fields[1]
    ELSE fields[1] \o <<",">> \o Join(Tail(fields))

RECURSIVE Pow10(_)
Pow10(d) == IF d = 0 THEN 1 ELSE 10 * Pow10(d - 1)

RECURSIVE DigitsValue(_, _)
DigitsValue(s, acc) ==
    IF s = <<>> THEN acc ELSE DigitsValue(Tail(s), 10 * acc + DigitVal(Head(s)))

AllDigits(s) == \A i \in 1..Len(s) : s[i] \in Digits

(***************************************************************************)
(* float(text).  A float is [kind |-> "fin", n |-> n, d |-> d] for the      *)
(* number n / 10^d (kept in lowest terms, so equal numbers are equal        *)
(* values), or [kind |-> "nan"], "inf", "-inf".  ValueError is              *)
(* [kind |-> "ValueError"].  The grammar covers what the modelled device    *)
(* can send: white space, a sign, decimal digits with an optional           *)
(* fraction, and the words nan / inf; exponents and digit separators are    *)
(* outside the modelled alphabet.                                           *)
(***************************************************************************)
RECURSIVE Normalize(_, _)
Normalize(n, d) ==
    IF d > 0 /\ n % 10 = 0 THEN Normalize(n \div 10, d - 1)
    ELSE [kind |-> "fin", n |-> n, d |-> d]

LowerWord(s) ==
    [i \in 1..Len(s) |->
        CASE s[i] = "N" -> "n" [] s[i] = "A" -> "a" [] s[i] = "I" -> "i"
          [] s[i] = "F" -> "f" [] OTHER -> s[i]]

\* The number body, the characters after the sign, stands for.
FloatOfBody(neg, body) ==
    With({i \in 1..Len(body) : body[i] = "."}, LAMBDA dots :
    With(IF dots = {} THEN body
         ELSE SubSeq(body, 1, (CHOOSE i \in dots : TRUE) - 1), LAMBDA ip :
    With(IF dots = {} THEN <<>>
         ELSE SubSeq(body, (CHOOSE i \in dots : TRUE) + 1, Len(body)), LAMBDA fp :
        IF LowerWord(body) = <<"n", "a", "n">> THEN [kind |-> "nan"]
        ELSE IF LowerWord(body) = <<"i", "n", "f">>
            THEN [kind |-> IF neg THEN "-inf" ELSE "inf"]
        ELSE IF /\ Cardinality(dots) <= 1
                /\ AllDigits(ip) /\ AllDigits(fp)
                /\ Len(ip) + Len(fp) > 0
            THEN Normalize(IF neg THEN 0 - DigitsValue(ip \o fp, 0)
                           ELSE DigitsValue(ip \o fp, 0), Len(fp))
        ELSE [kind |-> "ValueError"])))

float(text) ==
    With(strip(text), LAMBDA t :
        FloatOfBody(t # <<>> /\ Head(t) = "-",
                    IF t # <<>> /\ Head(t) \in {"-", "+"} THEN Tail(t) ELSE t))

\* lo <= x <= hi for integer literals lo, hi, as Python compares floats:
\* every comparison with nan is False.
Between_lower_only(lo, x, hi) ==
    CASE x.kind = "fin" -> lo * Pow10(x.d) <= x.n
      [] OTHER -> FALSE

Between(lo, x, hi) ==
    CASE x.kind = "fin" -> lo * Pow10(x.d) <= x.n /\ x.n <= hi * Pow10(x.d)
      [] OTHER -> FALSE

(***************************************************************************)
(* parse_sensor_line                                                        *)
(***************************************************************************)
None == [tag |-> "None"]

parse_sensor_line_ph15(line) ==
    With(split(line), LAMBDA values :
        IF Len(values) # 4 THEN None
        ELSE With(<<float(values[1]), float(values[2]), float(values[3]),
                    float(values[4])>>, LAMBDA number :
            IF \E i \in 1..4 : number[i].kind = "ValueError" THEN None
            ELSE IF ~Between(0, number[1], 100) THEN None
            ELSE IF ~Between(0, number[2], 2000) THEN None
            ELSE IF ~Between(0, number[3], 15) THEN None
            ELSE IF ~Between(-10, number[4], 100) THEN None
            ELSE [tag |-> "reading", turbidity |-> number[1],
                  tds |-> number[2], ph |-> number[3],
                  temperature |-> number[4]]))

parse_sensor_line(line) ==
    With(split(line), LAMBDA values :
        IF Len(values) # 4 THEN None
        ELSE With(<<float(values[1]), float(values[2]), float(values[3]),
                    float(values[4])>>, LAMBDA number :
            IF \E i \in 1..4 : number[i].kind = "ValueError" THEN None
            ELSE IF ~Between(0, number[1], 100) THEN None
            ELSE IF ~Between(0, number[2], 2000) THEN None
            ELSE IF ~Between(0, number[3], 14) THEN None
            ELSE IF ~Between(-10, number[4], 100) THEN None
            ELSE [tag |-> "reading", turbidity |-> number[1],
                  tds |-> number[2], ph |-> number[3],
                  temperature |-> number[4]]))

(***************************************************************************)
(* Configuration (serial_reader.py:17-28) and the bounds of the model       *)
(***************************************************************************)
READINGS_BUFFER == 5
MAX_WORKERS == 2

\* How many lines of distinct valid readings the device sends the reader.
MaxLines == 10
\* How many device writes the environment may make fail.
MaxWriteFaults == 1

(***************************************************************************)
(* The device's output: what the serial port will deliver.  An entry is a   *)
(* line (without its newline) and the wall clock, in seconds, at the moment *)
(* the reader handles it.                                                   *)
(***************************************************************************)
RECURSIVE Dec(_)
Dec(n) ==
    LET c == CASE n % 10 = 0 -> "0" [] n % 10 = 1 -> "1" [] n % 10 = 2 -> "2"
               [] n % 10 = 3 -> "3" [] n % 10 = 4 -> "4" [] n % 10 = 5 -> "5"
               [] n % 10 = 6 -> "6" [] n % 10 = 7 -> "7" [] n % 10 = 8 -> "8"
               [] n % 10 = 9 -> "9"
    IN  IF n < 10 THEN <<c>> ELSE Append(Dec(n \div 10), c)

\* "a.b"
Dot(a, b) == Dec(a) \o <<".">> \o Dec(b)

\* The line of the spec's scenario: "1.0,150,7.0,22.0".
LineScenario == Join(<<Dot(1, 0), Dec(150), Dot(7, 0), Dot(22, 0)>>)
\* "abc,150,7.0,22.0": a field that is no number.
LineNonNumeric == Join(<<<<"a", "b", "c">>, Dec(150), Dot(7, 0), Dot(22, 0)>>)
\* "200,150,7.0,22.0": turbidity out of range.
LineOutOfRange == Join(<<Dec(200), Dec(150), Dot(7, 0), Dot(22, 0)>>)
\* "1.0,150,7.0": a field missing.
LineShort == Join(<<Dot(1, 0), Dec(150), Dot(7, 0)>>)
\* A line of white space only: empty once stripped.
LineBlank == <<" ", "\r">>
\* The k-th distinct valid line: "k.5,<100k>,7.k,<30-k>", framed with the
\* carriage return the device's println sends.
LineValid(k) ==
    Join(<<Dot(k, 5), Dec(100 * k), Dot(7, k % 10), Dec(30 - k)>>) \o <<"\r">>

\* The spec's scenario: the same line five times.
ScriptSame == [i \in 1..5 |-> [line |-> LineScenario, at |-> i]]

\* Valid lines with malformed frames between them.
ScriptMixed ==
    << [line |-> LineValid(1), at |-> 1],
       [line |-> LineNonNumeric, at |-> 2],
       [line |-> LineValid(2), at |-> 3],
       [line |-> LineBlank, at |-> 3],
       [line |-> LineValid(3), at |-> 4],
       [line |-> LineOutOfRange, at |-> 5],
       [line |-> LineValid(4), at |-> 6],
       [line |-> LineShort, at |-> 7],
       [line |-> LineValid(5), at |-> 8],
       [line |-> LineValid(6), at |-> 9] >>

\* Valid lines only, as many as the bound allows; the clock has a resolution
\* of one second, so neighbouring readings can carry the same time stamp.
ScriptValid == [i \in 1..20 |-> [line |-> LineValid(i), at |-> (i + 1) \div 2]]

Take(s, n) == SubSeq(s, 1, IF Len(s) < n THEN Len(s) ELSE n)

(***************************************************************************)
(* The prediction endpoint's answers.  A JSON value is a record tagged by   *)
(* its type: [t |-> "str", s |-> characters], [t |-> "null"],               *)
(* [t |-> "num", repr |-> characters of its Python repr].                   *)
(***************************************************************************)
Str(chars) == [t |-> "str", s |-> chars]
JsonNull == [t |-> "null"]
Conf95 == [t |-> "num", repr |-> <<"9", "5", ".", "0">>]

\* The labels backend/app.py computes; "!" and "^" stand for the one-
\* character siren and the two-character warning sign that follow them.
LabelLow == <<"L", "O", "W", " ", "R", "I", "S", "K">>
LabelMedium ==
    <<"M", "E", "D", "I", "U", "M", " ", "R", "I", "S", "K", " ", "^", "^">>
LabelHigh == <<"H", "I", "G", "H", " ", "R", "I", "S", "K", " ", "!">>

NameDiarrhea == <<"D", "i", "a", "r", "r", "h", "e", "a">>

\* A decoded body that has every key the worker reads.
Body(quality, name) ==
    [prediction |-> [quality |-> quality, confidence |-> Conf95],
     disease_risks |-> <<[name |-> name, complete |-> TRUE]>>]

RespTimeout == [kind |-> "Timeout"]
RespConnErr == [kind |-> "ConnectionError"]
Resp500 == [kind |-> "http", status |-> 500, json |-> [t |-> "error"]]
\* 200 whose body is no JSON: response.json() raises.
RespUndecodable == [kind |-> "http", status |-> 200, json |-> [t |-> "undecodable"]]
\* 200 with a JSON object that has no 'prediction' key.
RespNoPrediction ==
    [kind |-> "http", status |-> 200, json |-> [t |-> "object", keys |-> {"status"}]]
RespOk(quality, name) ==
    [kind |-> "http", status |-> 200,
     json |-> [t |-> "object", keys |-> {"prediction", "disease_risks"},
               body |-> Body(quality, name)]]

RespLow == RespOk(Str(LabelLow), Str(NameDiarrhea))
RespMedium == RespOk(Str(LabelMedium), Str(NameDiarrhea))
RespHigh == RespOk(Str(LabelHigh), Str(NameDiarrhea))
\* A payload of the wrong shape that the worker's own reads do not notice:
\* the top disease's name is null.
RespHighNullName == RespOk(Str(LabelHigh), JsonNull)

Responses ==
    {RespTimeout, RespConnErr, Resp500, RespUndecodable, RespNoPrediction,
     RespLow, RespMedium, RespHigh, RespHighNullName}

\* An answer is a PredictionResult when the call returned 200 with a
\* payload of the documented shape: an object whose prediction.quality is a
\* string and whose disease_risks entries are complete, with string names.
WellFormed(resp) ==
    /\ resp.kind = "http" /\ resp.status = 200
    /\ resp.json.t = "object"
    /\ "prediction" \in resp.json.keys
    /\ resp.json.body.prediction.quality.t = "str"
    /\ \A i \in 1..Len(resp.json.body.disease_risks) :
          /\ resp.json.body.disease_risks[i].name.t = "str"
          /\ resp.json.body.disease_risks[i].complete

(***************************************************************************)
(* State                                                                    *)
(***************************************************************************)
VARIABLES
    sched,                  \* which worker threads the scheduler runs
    serial_in,              \* the lines the device has still to deliver
    consumed,               \* history: the entries readline() has returned
    mainPc,                 \* main(): where the main thread is
    stop_threads,           \* threading.Event: is it set
    arduino_open,           \* arduino.is_open
    session_open,           \* the pooled requests.Session is not closed
    readerPc,               \* arduino_reader_thread
    reading_count,
    sensor_buffer,
    instant_update_queue,
    prediction_queue,
    instant_log,            \* history: every item put on instant_update_queue
    batch_log,              \* history: every item put on prediction_queue
    senderPc,               \* async_sender_worker
    executor_queue,         \* work submitted to the pool, not yet picked up
    in_flight,              \* the bag of items the pool's workers are POSTing
    posted,                 \* history: the bag of items whose POST has returned
    predPc,                 \* prediction_thread
    prediction_item,
    result,
    relay_permanently_off,
    answered,               \* history: [count, outcome] of the batch answered last
    dev_writes,             \* history: every write attempted on the device
    write_faults,           \* device writes the environment has made fail
    p_line,                 \* a function alone: the text it is given
    p_result                \* a function alone: what it returned

mainVars == <<mainPc, stop_threads, arduino_open, session_open, sched>>
readerVars == <<readerPc, reading_count, sensor_buffer, serial_in, consumed>>
queueVars == <<instant_update_queue, prediction_queue, instant_log, batch_log>>
senderVars == <<senderPc, executor_queue, in_flight, posted>>
predVars == <<predPc, prediction_item, result, relay_permanently_off, answered>>
devVars == <<dev_writes, write_faults>>
parseVars == <<p_line, p_result>>

vars ==
    <<mainVars, readerVars, queueVars, senderVars, predVars, devVars, parseVars>>

Unset == [tag |-> "unset"]

\* The state when main() is entered: the module's globals as constructed,
\* no thread started, and the device about to send one of `inputs`.
InitWith(schedules, inputs, lines) ==
    /\ sched \in schedules
    /\ serial_in \in inputs
    /\ consumed = <<>>
    /\ mainPc = "connect"
    /\ stop_threads = FALSE
    /\ arduino_open = FALSE
    /\ session_open = TRUE
    /\ readerPc = "off"
    /\ reading_count = 0
    /\ sensor_buffer = <<>>
    /\ instant_update_queue = <<>>
    /\ prediction_queue = <<>>
    /\ instant_log = <<>>
    /\ batch_log = <<>>
    /\ senderPc = "off"
    /\ executor_queue = <<>>
    /\ in_flight = EmptyBag
    /\ posted = EmptyBag
    /\ predPc = "off"
    /\ prediction_item = None
    /\ result = None
    /\ relay_permanently_off = FALSE
    /\ answered = None
    /\ dev_writes = <<>>
    /\ write_faults = 0
    /\ p_line \in lines
    /\ p_result = Unset

(***************************************************************************)
(* arduino.write(command).  The write either completes or raises; it raises *)
(* whenever the port is closed, and otherwise when the link fails.          *)
(***************************************************************************)
Command(by, batch, cmd, arg, ok) ==
    [by |-> by, batch |-> batch, cmd |-> cmd, arg |-> arg, ok |-> ok]

WriteCompletes_on_closed(by, batch, cmd, arg) ==
    /\ dev_writes' = Append(dev_writes, Command(by, batch, cmd, arg, TRUE))
    /\ UNCHANGED write_faults

WriteCompletes(by, batch, cmd, arg) ==
    /\ arduino_open
    /\ dev_writes' = Append(dev_writes, Command(by, batch, cmd, arg, TRUE))
    /\ UNCHANGED write_faults

WriteRaises(by, batch, cmd, arg) ==
    /\ ~arduino_open \/ write_faults < MaxWriteFaults
    /\ dev_writes' = Append(dev_writes, Command(by, batch, cmd, arg, FALSE))
    /\ write_faults' = IF arduino_open THEN write_faults + 1 ELSE write_faults

TextSystemReady ==
    <<"S", "y", "s", "t", "e", "m", " ", "R", "e", "a", "d", "y">>
TextReading == <<"R", "e", "a", "d", "i", "n", "g", ".", ".", ".">>
TextSystemOff == <<"S", "y", "s", "t", "e", "m", " ", "O", "f", "f">>
TextGoodbye == <<"G", "o", "o", "d", "b", "y", "e", "!">>
TextSafeToUse == <<"S", "a", "f", "e", " ", "t", "o", " ", "u", "s", "e">>

(***************************************************************************)
(* main()                                                                   *)
(***************************************************************************)
\* connect_arduino(): the port opens, or it cannot be opened and main returns.
MainConnect_starts_anyway ==
    /\ mainPc = "connect"
    /\ \/ arduino_open' = TRUE /\ mainPc' = "hello_risk"
       \/ arduino_open' = FALSE /\ mainPc' = "start_sender"
    /\ UNCHANGED <<sched, stop_threads, session_open, readerVars, queueVars,
                   senderVars, predVars, devVars, parseVars>>

MainConnect ==
    /\ mainPc = "connect"
    /\ \/ arduino_open' = TRUE /\ mainPc' = "hello_risk"
       \/ arduino_open' = FALSE /\ mainPc' = "done"
    /\ UNCHANGED <<sched, stop_threads, session_open, readerVars, queueVars,
                   senderVars, predVars, devVars, parseVars>>

\* arduino.write(b"RISK:System Ready\n"); a raise skips the second write.
MainHelloRisk ==
    /\ mainPc = "hello_risk"
    /\ \/ WriteCompletes("main", 0, "RISK", TextSystemReady)
          /\ mainPc' = "hello_issue"
       \/ WriteRaises("main", 0, "RISK", TextSystemReady)
          /\ mainPc' = "start_sender"
    /\ UNCHANGED <<sched, stop_threads, arduino_open, session_open, readerVars,
                   queueVars, senderVars, predVars, parseVars>>

MainHelloIssue ==
    /\ mainPc = "hello_issue"
    /\ \/ WriteCompletes("main", 0, "ISSUE", TextReading)
       \/ WriteRaises("main", 0, "ISSUE", TextReading)
    /\ mainPc' = "start_sender"
    /\ UNCHANGED <<sched, stop_threads, arduino_open, session_open, readerVars,
                   queueVars, senderVars, predVars, parseVars>>

MainStartSender ==
    /\ mainPc = "start_sender"
    /\ senderPc' = "check"
    /\ mainPc' = "start_reader"
    /\ UNCHANGED <<sched, stop_threads, arduino_open, session_open, readerVars,
                   queueVars, executor_queue, in_flight, posted, predVars,
                   devVars, parseVars>>

MainStartReader ==
    /\ mainPc = "start_reader"
    /\ readerPc' = "check"
    /\ mainPc' = "start_predict"
    /\ UNCHANGED <<sched, stop_threads, arduino_open, session_open, reading_count,
                   sensor_buffer, serial_in, consumed, queueVars, senderVars,
                   predVars, devVars, parseVars>>

MainStartPredict ==
    /\ mainPc = "start_predict"
    /\ predPc' = "check"
    /\ mainPc' = "run"
    /\ UNCHANGED <<sched, stop_threads, arduino_open, session_open, readerVars,
                   queueVars, senderVars, prediction_item, result,
                   relay_permanently_off, answered, devVars, parseVars>>

\* KeyboardInterrupt in the sleep loop: stop_threads.set().
MainInterrupt_resets_relay ==
    /\ mainPc = "run"
    /\ stop_threads' = TRUE
    /\ mainPc' = "join_reader"
    /\ relay_permanently_off' = FALSE
    /\ UNCHANGED <<sched, arduino_open, session_open, readerVars, queueVars,
                   senderVars, predPc, prediction_item, result, answered,
                   devVars, parseVars>>

MainInterrupt ==
    /\ mainPc = "run"
    /\ stop_threads' = TRUE
    /\ mainPc' = "join_reader"
    /\ UNCHANGED <<sched, arduino_open, session_open, readerVars, queueVars,
                   senderVars, predVars, devVars, parseVars>>

\* thread.join(timeout=2) returns when the thread has ended or the two
\* seconds are over, whichever is first: main goes on either way.
MainJoin_without_timeout(from, to) ==
    /\ mainPc = from
    /\ from = "join_reader" => readerPc = "stopped"
    /\ from = "join_predict" => predPc = "stopped"
    /\ from = "join_sender" => senderPc = "stopped"
    /\ mainPc' = to
    /\ UNCHANGED <<sched, stop_threads, arduino_open, session_open, readerVars,
                   queueVars, senderVars, predVars, devVars, parseVars>>

MainJoin(from, to) ==
    /\ mainPc = from
    /\ mainPc' = to
    /\ UNCHANGED <<sched, stop_threads, arduino_open, session_open, readerVars,
                   queueVars, senderVars, predVars, devVars, parseVars>>

MainJoinReader == MainJoin("join_reader", "join_predict")
MainJoinPredict == MainJoin("join_predict", "join_sender")
MainJoinSender == MainJoin("join_sender", "bye_risk")

MainByeRisk ==
    /\ mainPc = "bye_risk"
    /\ \/ WriteCompletes("main", 0, "RISK", TextSystemOff)
          /\ mainPc' = "bye_issue"
       \/ WriteRaises("main", 0, "RISK", TextSystemOff)
          /\ mainPc' = "close_session"
    /\ UNCHANGED <<sched, stop_threads, arduino_open, session_open, readerVars,
                   queueVars, senderVars, predVars, parseVars>>

MainByeIssue ==
    /\ mainPc = "bye_issue"
    /\ \/ WriteCompletes("main", 0, "ISSUE", TextGoodbye)
       \/ WriteRaises("main", 0, "ISSUE", TextGoodbye)
    /\ mainPc' = "close_session"
    /\ UNCHANGED <<sched, stop_threads, arduino_open, session_open, readerVars,
                   queueVars, senderVars, predVars, parseVars>>

\* finally: session.close()
MainCloseSession ==
    /\ mainPc = "close_session"
    /\ session_open' = FALSE
    /\ mainPc' = "close_arduino"
    /\ UNCHANGED <<sched, stop_threads, arduino_open, readerVars, queueVars,
                   senderVars, predVars, devVars, parseVars>>

\* finally: if arduino and arduino.is_open: arduino.close(); main returns.
MainCloseArduino ==
    /\ mainPc = "close_arduino"
    /\ arduino_open' = FALSE
    /\ mainPc' = "return"
    /\ UNCHANGED <<sched, stop_threads, session_open, readerVars, queueVars,
                   senderVars, predVars, devVars, parseVars>>

\* The last prints, main returns and the interpreter ends; until then the
\* daemon threads still run.
MainReturn ==
    /\ mainPc = "return"
    /\ mainPc' = "done"
    /\ UNCHANGED <<sched, stop_threads, arduino_open, session_open, readerVars,
                   queueVars, senderVars, predVars, devVars, parseVars>>

\* The three workers are daemon threads: they run only while main has not
\* returned.
ProcessAlive == mainPc # "done"

(***************************************************************************)
(* arduino_reader_thread                                                    *)
(***************************************************************************)
\* while not stop_threads.is_set()
ReaderCheck_ignores_stop ==
    /\ ProcessAlive
    /\ readerPc = "check"
    /\ readerPc' = "body"
    /\ UNCHANGED <<mainVars, reading_count, sensor_buffer, serial_in, consumed,
                   queueVars, senderVars, predVars, devVars, parseVars>>

ReaderCheck_drains_buffer ==
    /\ ProcessAlive
    /\ readerPc = "check"
    /\ readerPc' = IF stop_threads THEN "stopped" ELSE "body"
    /\ IF stop_threads /\ sensor_buffer # <<>>
       THEN \E item \in {[data |-> sensor_buffer[Len(sensor_buffer)],
                          count |-> reading_count,
                          time |-> sensor_buffer[Len(sensor_buffer)].time]} :
               /\ prediction_queue' = Append(prediction_queue, item)
               /\ batch_log' = Append(batch_log, item)
               /\ sensor_buffer' = <<>>
               /\ UNCHANGED <<instant_update_queue, instant_log>>
       ELSE UNCHANGED <<sensor_buffer, queueVars>>
    /\ UNCHANGED <<mainVars, reading_count, serial_in, consumed,
                   senderVars, predVars, devVars, parseVars>>

ReaderCheck ==
    /\ ProcessAlive
    /\ readerPc = "check"
    /\ readerPc' = IF stop_threads THEN "stopped" ELSE "body"
    /\ UNCHANGED <<mainVars, reading_count, sensor_buffer, serial_in, consumed,
                   queueVars, senderVars, predVars, devVars, parseVars>>

\* One pass with nothing to read: in_waiting is 0, or the port is closed and
\* in_waiting raises (caught, sleep).
ReaderIdle ==
    /\ ProcessAlive
    /\ readerPc = "body"
    /\ readerPc' = "check"
    /\ UNCHANGED <<mainVars, reading_count, sensor_buffer, serial_in, consumed,
                   queueVars, senderVars, predVars, devVars, parseVars>>

\* sensor_data_with_time = sensor_data.copy(); ['time'] = timestamp
WithTime(sensor_data, timestamp) ==
    [turbidity |-> sensor_data.turbidity, tds |-> sensor_data.tds,
     ph |-> sensor_data.ph, temperature |-> sensor_data.temperature,
     time |-> timestamp]

\* What goes on prediction_queue when the buffer is full.
BatchOfFirst(buffer, count, timestamp) ==
    [data |-> buffer[1], count |-> count, time |-> timestamp]

BatchOf_numbers_batches(buffer, count, timestamp) ==
    [data |-> buffer[Len(buffer)], count |-> count \div READINGS_BUFFER,
     time |-> timestamp]

BatchOf(buffer, count, timestamp) ==
    [data |-> buffer[Len(buffer)], count |-> count, time |-> timestamp]

\* queue.Queue.put on an unbounded queue: the item goes to the back and the
\* call never blocks.
put_front(q, item) == <<item>> \o q

put(q, item) == Append(q, item)

\* reading_count after a line that parsed to sensor_data (the increment is
\* inside "if sensor_data:").
NextCount_every_line(count, sensor_data) == count + 1

NextCount(count, sensor_data) ==
    IF sensor_data = None THEN count ELSE count + 1

\* One pass that reads a line (serial_reader.py:228-262).
ReaderLine_late_batch ==
    /\ ProcessAlive
    /\ readerPc = "body"
    /\ arduino_open
    /\ serial_in # <<>>
    /\ \E entry \in {Head(serial_in)} :
       \E line \in {strip(entry.line)} :
       \E sensor_data \in {IF line = <<>> THEN None
                            ELSE parse_sensor_line(line)} :
       \E count \in {NextCount(reading_count, sensor_data)} :
          /\ serial_in' = Tail(serial_in)
          /\ consumed' = Append(consumed, entry)
          /\ reading_count' = count
          /\ IF sensor_data = None
             THEN UNCHANGED <<sensor_buffer, queueVars>>
             ELSE \E item \in {WithTime(sensor_data, entry.at)} :
                  \E buffer \in {Append(sensor_buffer, item)} :
                     /\ instant_update_queue' = put(instant_update_queue, item)
                     /\ instant_log' = Append(instant_log, item)
                     /\ IF Len(buffer) > READINGS_BUFFER
                        THEN /\ prediction_queue' =
                                  put(prediction_queue,
                                      BatchOf(buffer, count, entry.at))
                             /\ batch_log' =
                                  Append(batch_log,
                                         BatchOf(buffer, count, entry.at))
                             /\ sensor_buffer' = <<>>
                        ELSE /\ sensor_buffer' = buffer
                             /\ UNCHANGED <<prediction_queue, batch_log>>
    /\ readerPc' = "check"
    /\ UNCHANGED <<mainVars, senderVars, predVars, devVars, parseVars>>

ReaderLine ==
    /\ ProcessAlive
    /\ readerPc = "body"
    /\ arduino_open
    /\ serial_in # <<>>
    /\ \E entry \in {Head(serial_in)} :
       \E line \in {strip(entry.line)} :
       \E sensor_data \in {IF line = <<>> THEN None
                            ELSE parse_sensor_line(line)} :
       \E count \in {NextCount(reading_count, sensor_data)} :
          /\ serial_in' = Tail(serial_in)
          /\ consumed' = Append(consumed, entry)
          /\ reading_count' = count
          /\ IF sensor_data = None
             THEN UNCHANGED <<sensor_buffer, queueVars>>
             ELSE \E item \in {WithTime(sensor_data, entry.at)} :
                  \E buffer \in {Append(sensor_buffer, item)} :
                     /\ instant_update_queue' = put(instant_update_queue, item)
                     /\ instant_log' = Append(instant_log, item)
                     /\ IF Len(buffer) >= READINGS_BUFFER
                        THEN /\ prediction_queue' =
                                  put(prediction_queue,
                                      BatchOf(buffer, count, entry.at))
                             /\ batch_log' =
                                  Append(batch_log,
                                         BatchOf(buffer, count, entry.at))
                             /\ sensor_buffer' = <<>>
                        ELSE /\ sensor_buffer' = buffer
                             /\ UNCHANGED <<prediction_queue, batch_log>>
    /\ readerPc' = "check"
    /\ UNCHANGED <<mainVars, senderVars, predVars, devVars, parseVars>>

(***************************************************************************)
(* async_sender_worker and its ThreadPoolExecutor(max_workers=2)            *)
(***************************************************************************)
\* while not stop_threads.is_set(); leaving the with block shuts the pool
\* down and waits for the submitted work.
SenderCheck ==
    /\ ProcessAlive
    /\ senderPc = "check"
    /\ senderPc' = IF stop_threads THEN "shutdown" ELSE "get"
    /\ UNCHANGED <<mainVars, readerVars, queueVars, executor_queue, in_flight,
                   posted, predVars, devVars, parseVars>>

\* instant_update_queue.get(timeout=0.5): an item, submitted to the pool at
\* once, or queue.Empty and back to the loop test.
SenderGet_waits_for_worker ==
    /\ ProcessAlive
    /\ senderPc = "get"
    /\ BagCardinality(in_flight) < MAX_WORKERS
    /\ IF instant_update_queue # <<>>
       THEN /\ executor_queue' = Append(executor_queue, Head(instant_update_queue))
            /\ instant_update_queue' = Tail(instant_update_queue)
       ELSE UNCHANGED <<executor_queue, instant_update_queue>>
    /\ senderPc' = "check"
    /\ UNCHANGED <<mainVars, readerVars, prediction_queue, instant_log,
                   batch_log, in_flight, posted, predVars, devVars, parseVars>>

SenderGet ==
    /\ ProcessAlive
    /\ senderPc = "get"
    /\ IF instant_update_queue # <<>>
       THEN /\ executor_queue' = Append(executor_queue, Head(instant_update_queue))
            /\ instant_update_queue' = Tail(instant_update_queue)
       ELSE UNCHANGED <<executor_queue, instant_update_queue>>
    /\ senderPc' = "check"
    /\ UNCHANGED <<mainVars, readerVars, prediction_queue, instant_log,
                   batch_log, in_flight, posted, predVars, devVars, parseVars>>

\* executor.shutdown(wait=True) returns once the pool has done its work.
SenderShutdown ==
    /\ ProcessAlive
    /\ senderPc = "shutdown"
    /\ executor_queue = <<>>
    /\ in_flight = EmptyBag
    /\ senderPc' = "stopped"
    /\ UNCHANGED <<mainVars, readerVars, queueVars, executor_queue, in_flight,
                   posted, predVars, devVars, parseVars>>

\* A free pool worker picks up the oldest submitted item and starts
\* _send_update_to_flask: session.post(...) is in flight.  The workers are
\* interchangeable, so the pool is the bag of the items being POSTed.
PoolTake ==
    /\ BagCardinality(in_flight) < MAX_WORKERS
    /\ executor_queue # <<>>
    /\ in_flight' = in_flight (+) SetToBag({Head(executor_queue)})
    /\ executor_queue' = Tail(executor_queue)
    /\ UNCHANGED <<mainVars, readerVars, queueVars, senderPc, posted,
                   predVars, devVars, parseVars>>

PostOutcomes == {"200", "non200", "Timeout", "Exception"}

\* A POST returns or raises; every outcome is passed over.
PoolDone_retries ==
    \E item \in BagToSet(in_flight) :
        /\ \E outcome \in PostOutcomes :
              /\ posted' = posted (+) SetToBag({item})
              /\ instant_update_queue' =
                   IF outcome = "Timeout"
                   THEN Append(instant_update_queue, item)
                   ELSE instant_update_queue
        /\ in_flight' = in_flight (-) SetToBag({item})
        /\ UNCHANGED <<mainVars, readerVars, prediction_queue, instant_log,
                       batch_log, senderPc, executor_queue, predVars, devVars,
                       parseVars>>

PoolDone_oldest_first ==
    \E item \in BagToSet(in_flight) :
        /\ \A other \in BagToSet(in_flight) : other.time >= item.time
        /\ \E outcome \in PostOutcomes :
              posted' = posted (+) SetToBag({item})
        /\ in_flight' = in_flight (-) SetToBag({item})
        /\ UNCHANGED <<mainVars, readerVars, queueVars, senderPc,
                       executor_queue, predVars, devVars, parseVars>>

PoolDone ==
    \E item \in BagToSet(in_flight) :
        /\ \E outcome \in PostOutcomes :
              posted' = posted (+) SetToBag({item})
        /\ in_flight' = in_flight (-) SetToBag({item})
        /\ UNCHANGED <<mainVars, readerVars, queueVars, senderPc,
                       executor_queue, predVars, devVars, parseVars>>

(***************************************************************************)
(* control_hardware / send_to_arduino helpers                               *)
(***************************************************************************)
UpperChar(c) ==
    CASE c = "a" -> "A" [] c = "b" -> "B" [] c = "c" -> "C" [] c = "d" -> "D"
      [] c = "e" -> "E" [] c = "f" -> "F" [] c = "g" -> "G" [] c = "h" -> "H"
      [] c = "i" -> "I" [] c = "j" -> "J" [] c = "k" -> "K" [] c = "l" -> "L"
      [] c = "m" -> "M" [] c = "n" -> "N" [] c = "o" -> "O" [] c = "p" -> "P"
      [] c = "q" -> "Q" [] c = "r" -> "R" [] c = "s" -> "S" [] c = "t" -> "T"
      [] c = "u" -> "U" [] c = "v" -> "V" [] c = "w" -> "W" [] c = "x" -> "X"
      [] c = "y" -> "Y" [] c = "z" -> "Z" [] OTHER -> c

\* str.upper()
upper(s) == [i \in 1..Len(s) |-> UpperChar(s[i])]

\* sub in s
Contains(sub, s) ==
    \E i \in 0..(Len(s) - Len(sub)) : SubSeq(s, i + 1, i + Len(sub)) = sub

HIGH_RISK == <<"H", "I", "G", "H", " ", "R", "I", "S", "K">>
MEDIUM_RISK == <<"M", "E", "D", "I", "U", "M", " ", "R", "I", "S", "K">>

\* serial_reader.py:123-127
risk_level_medium_first(quality) ==
    IF Contains(MEDIUM_RISK, upper(quality)) THEN "medium"
    ELSE IF Contains(HIGH_RISK, upper(quality)) THEN "high"
    ELSE "low"

risk_level(quality) ==
    IF Contains(HIGH_RISK, upper(quality)) THEN "high"
    ELSE IF Contains(MEDIUM_RISK, upper(quality)) THEN "medium"
    ELSE "low"

\* The test that guards the relay write (serial_reader.py:129).
RelayWanted_always(level, latched) == level = "high"

RelayWanted(level, latched) == level = "high" /\ ~latched

\* The test that guards the buzzer write (serial_reader.py:135).
BuzzerWanted_high_only(level) == level = "high"

BuzzerWanted(level) == level \in {"medium", "high"}

\* Lines 308-328 of prediction_thread: the status is 200, response.json()
\* decodes, and every key the worker prints is there; anything else raises
\* or is reported, and the batch is passed over.
Decoded(resp) ==
    /\ resp.kind = "http"
    /\ resp.status = 200
    /\ resp.json.t = "object"
    /\ "prediction" \in resp.json.keys
    /\ \A i \in 1..Len(resp.json.body.disease_risks) :
          resp.json.body.disease_risks[i].complete

\* What the history keeps of an answer: "failed" when it is no
\* PredictionResult, else the risk level of its label.
Outcome(resp) ==
    IF WellFormed(resp) THEN risk_level(resp.json.body.prediction.quality.s)
    ELSE "failed"

(***************************************************************************)
(* prediction_thread                                                        *)
(***************************************************************************)
PredCheck ==
    /\ ProcessAlive
    /\ predPc = "check"
    /\ predPc' = IF stop_threads THEN "stopped" ELSE "get"
    /\ UNCHANGED <<mainVars, readerVars, queueVars, senderVars,
                   prediction_item, result, relay_permanently_off, answered,
                   devVars, parseVars>>

\* prediction_queue.get(timeout=1): an item, and requests.post(PREDICT_URL)
\* is sent; or queue.Empty and back to the loop test.
PredGet_takes_newest ==
    /\ ProcessAlive
    /\ predPc = "get"
    /\ IF prediction_queue # <<>>
       THEN /\ prediction_item' = prediction_queue[Len(prediction_queue)]
            /\ prediction_queue' =
                 SubSeq(prediction_queue, 1, Len(prediction_queue) - 1)
            /\ predPc' = "post"
       ELSE /\ UNCHANGED <<prediction_item, prediction_queue>>
            /\ predPc' = "check"
    /\ UNCHANGED <<mainVars, readerVars, instant_update_queue, instant_log,
                   batch_log, senderVars, result, relay_permanently_off,
                   answered, devVars, parseVars>>

PredGet ==
    /\ ProcessAlive
    /\ predPc = "get"
    /\ IF prediction_queue # <<>>
       THEN /\ prediction_item' = Head(prediction_queue)
            /\ prediction_queue' = Tail(prediction_queue)
            /\ predPc' = "post"
       ELSE /\ UNCHANGED <<prediction_item, prediction_queue>>
            /\ predPc' = "check"
    /\ UNCHANGED <<mainVars, readerVars, instant_update_queue, instant_log,
                   batch_log, senderVars, result, relay_permanently_off,
                   answered, devVars, parseVars>>

\* The prediction call ends (serial_reader.py:306-342).
PredPost ==
    /\ ProcessAlive
    /\ predPc = "post"
    /\ \E resp \in Responses :
          /\ answered' = [count |-> prediction_item.count,
                           outcome |-> Outcome(resp)]
          /\ IF Decoded(resp)
             THEN /\ result' = resp.json.body
                  /\ predPc' = "control_hardware"
                  /\ UNCHANGED prediction_item
             ELSE /\ result' = None
                  /\ prediction_item' = None
                  /\ predPc' = "check"
    /\ UNCHANGED <<mainVars, readerVars, queueVars, senderVars,
                   relay_permanently_off, devVars, parseVars>>

\* control_hardware up to its first write: the is_open test, the
\* classification (quality.upper() raises on a value that is no string) and
\* the two tests on risk_level.
PredControlHardware ==
    /\ ProcessAlive
    /\ predPc = "control_hardware"
    /\ predPc' =
         IF ~arduino_open THEN "send_to_arduino"
         ELSE IF result.prediction.quality.t # "str" THEN "send_to_arduino"
         ELSE LET level == risk_level(result.prediction.quality.s) IN
              IF RelayWanted(level, relay_permanently_off) THEN "relay"
              ELSE IF BuzzerWanted(level) THEN "buzzer"
              ELSE "send_to_arduino"
    /\ UNCHANGED <<mainVars, readerVars, queueVars, senderVars,
                   prediction_item, result, relay_permanently_off, answered,
                   devVars, parseVars>>

\* arduino.write(b"RELAY:ON\n"); a raise leaves control_hardware.
PredRelay_raise_latches ==
    /\ ProcessAlive
    /\ predPc = "relay"
    /\ \/ WriteCompletes("predict", prediction_item.count, "RELAY:ON", <<>>)
       \/ WriteRaises("predict", prediction_item.count, "RELAY:ON", <<>>)
    /\ predPc' = "latch"
    /\ UNCHANGED <<mainVars, readerVars, queueVars, senderVars,
                   prediction_item, result, relay_permanently_off, answered,
                   parseVars>>

PredRelay ==
    /\ ProcessAlive
    /\ predPc = "relay"
    /\ \/ WriteCompletes("predict", prediction_item.count, "RELAY:ON", <<>>)
          /\ predPc' = "latch"
       \/ WriteRaises("predict", prediction_item.count, "RELAY:ON", <<>>)
          /\ predPc' = "send_to_arduino"
    /\ UNCHANGED <<mainVars, readerVars, queueVars, senderVars,
                   prediction_item, result, relay_permanently_off, answered,
                   parseVars>>

\* time.sleep(0.1); relay_permanently_off = True; risk_level is 'high' here,
\* so the buzzer is next.
LatchValue_unchanged(latched) == latched

LatchValue(latched) == TRUE

PredLatch ==
    /\ ProcessAlive
    /\ predPc = "latch"
    /\ relay_permanently_off' = LatchValue(relay_permanently_off)
    /\ predPc' = IF BuzzerWanted(risk_level(result.prediction.quality.s))
                 THEN "buzzer" ELSE "send_to_arduino"
    /\ UNCHANGED <<mainVars, readerVars, queueVars, senderVars,
                   prediction_item, result, answered, devVars, parseVars>>

\* arduino.write(b"BUZZER:ON\n")
PredBuzzer_raise_uncaught ==
    /\ ProcessAlive
    /\ predPc = "buzzer"
    /\ \/ /\ WriteCompletes("predict", prediction_item.count, "BUZZER:ON", <<>>)
          /\ predPc' = "send_to_arduino"
       \/ /\ WriteRaises("predict", prediction_item.count, "BUZZER:ON", <<>>)
          /\ predPc' = "stopped"
    /\ UNCHANGED <<mainVars, readerVars, queueVars, senderVars,
                   prediction_item, result, relay_permanently_off, answered,
                   parseVars>>

PredBuzzer ==
    /\ ProcessAlive
    /\ predPc = "buzzer"
    /\ \/ WriteCompletes("predict", prediction_item.count, "BUZZER:ON", <<>>)
       \/ WriteRaises("predict", prediction_item.count, "BUZZER:ON", <<>>)
    /\ predPc' = "send_to_arduino"
    /\ UNCHANGED <<mainVars, readerVars, queueVars, senderVars,
                   prediction_item, result, relay_permanently_off, answered,
                   parseVars>>

\* The batch is done: back to the loop test.
PredFinish ==
    /\ prediction_item' = None
    /\ result' = None
    /\ predPc' = "check"

\* quality[:12] needs a value that can be sliced.
Sliceable(v) == v.t = "str"

\* f"{quality[:12]} {confidence}%"
quality_text_whole(prediction) ==
    prediction.quality.s \o <<" ">> \o prediction.confidence.repr \o <<"%">>

quality_text(prediction) ==
    Take(prediction.quality.s, 12) \o <<" ">> \o prediction.confidence.repr
        \o <<"%">>

\* send_to_arduino up to its first write: the is_open test and quality_text.
PredSendToArduino ==
    /\ ProcessAlive
    /\ predPc = "send_to_arduino"
    /\ IF arduino_open /\ Sliceable(result.prediction.quality)
       THEN predPc' = "risk" /\ UNCHANGED <<prediction_item, result>>
       ELSE PredFinish
    /\ UNCHANGED <<mainVars, readerVars, queueVars, senderVars,
                   relay_permanently_off, answered, devVars, parseVars>>

\* arduino.write(f"RISK:{quality_text}\n"), then the choice of the second
\* line; top_disease['name'][:16] raises on a name that cannot be sliced.
PredRisk_skips_issue ==
    /\ ProcessAlive
    /\ predPc = "risk"
    /\ \/ WriteCompletes("predict", prediction_item.count, "RISK",
                         quality_text(result.prediction))
       \/ WriteRaises("predict", prediction_item.count, "RISK",
                      quality_text(result.prediction))
    /\ PredFinish
    /\ UNCHANGED <<mainVars, readerVars, queueVars, senderVars,
                   relay_permanently_off, answered, parseVars>>

PredRisk ==
    /\ ProcessAlive
    /\ predPc = "risk"
    /\ \/ /\ WriteCompletes("predict", prediction_item.count, "RISK",
                            quality_text(result.prediction))
          /\ IF /\ Len(result.disease_risks) > 0
                /\ ~Sliceable(result.disease_risks[1].name)
             THEN PredFinish
             ELSE predPc' = "issue" /\ UNCHANGED <<prediction_item, result>>
       \/ /\ WriteRaises("predict", prediction_item.count, "RISK",
                         quality_text(result.prediction))
          /\ PredFinish
    /\ UNCHANGED <<mainVars, readerVars, queueVars, senderVars,
                   relay_permanently_off, answered, parseVars>>

\* The second status line.
issue_text(disease_risks) ==
    IF Len(disease_risks) > 0 THEN Take(disease_risks[1].name.s, 16)
    ELSE TextSafeToUse

PredIssue ==
    /\ ProcessAlive
    /\ predPc = "issue"
    /\ \/ WriteCompletes("predict", prediction_item.count, "ISSUE",
                         issue_text(result.disease_risks))
       \/ WriteRaises("predict", prediction_item.count, "ISSUE",
                      issue_text(result.disease_risks))
    /\ PredFinish
    /\ UNCHANGED <<mainVars, readerVars, queueVars, senderVars,
                   relay_permanently_off, answered, parseVars>>

(***************************************************************************)
(* The parser alone                                                         *)
(***************************************************************************)
ParseLine ==
    /\ p_result = Unset
    /\ p_result' = parse_sensor_line(p_line)
    /\ UNCHANGED <<p_line, mainVars, readerVars, queueVars, senderVars,
                   predVars, devVars>>

(***************************************************************************)
(* The classification alone                                                 *)
(***************************************************************************)
Classify ==
    /\ p_result = Unset
    /\ p_result' = [tag |-> "risk_level", level |-> risk_level(p_line)]
    /\ UNCHANGED <<p_line, mainVars, readerVars, queueVars, senderVars,
                   predVars, devVars>>

(***************************************************************************)
(* The status lines alone                                                   *)
(***************************************************************************)
\* The lines send_to_arduino writes for a decoded result when the port is
\* open and no write raises (serial_reader.py:154-169): none when the
\* quality cannot be sliced, the first alone when the top name cannot.
send_to_arduino_lines(res) ==
    IF ~Sliceable(res.prediction.quality) THEN <<>>
    ELSE IF /\ Len(res.disease_risks) > 0
            /\ ~Sliceable(res.disease_risks[1].name)
        THEN <<[cmd |-> "RISK", arg |-> quality_text(res.prediction)]>>
    ELSE <<[cmd |-> "RISK", arg |-> quality_text(res.prediction)],
           [cmd |-> "ISSUE", arg |-> issue_text(res.disease_risks)]>>

StatusLines ==
    /\ p_result = Unset
    /\ p_result' = [tag |-> "lines", lines |-> send_to_arduino_lines(p_line)]
    /\ UNCHANGED <<p_line, mainVars, readerVars, queueVars, senderVars,
                   predVars, devVars>>

(***************************************************************************)
(* Specifications                                                           *)
(***************************************************************************)
MainStep ==
    \/ MainConnect \/ MainHelloRisk \/ MainHelloIssue
    \/ MainStartSender \/ MainStartReader \/ MainStartPredict
    \/ MainInterrupt
    \/ MainJoinReader \/ MainJoinPredict \/ MainJoinSender
    \/ MainByeRisk \/ MainByeIssue \/ MainCloseSession \/ MainCloseArduino
    \/ MainReturn

ReaderStep == ReaderCheck \/ ReaderIdle \/ ReaderLine

SenderStep == SenderCheck \/ SenderGet \/ SenderShutdown

PoolStep == PoolTake \/ PoolDone

PredictStep ==
    \/ PredCheck \/ PredGet \/ PredPost \/ PredControlHardware \/ PredRelay
    \/ PredLatch \/ PredBuzzer \/ PredSendToArduino \/ PredRisk \/ PredIssue

\* The full product of the four threads and the pool is beyond exhaustive
\* search, so a behaviour is checked under one of two schedules.  Under
\* "ingest" the prediction thread, once started, is never scheduled; under
\* "actuate" the sender thread is never scheduled.  Both are behaviours of
\* the program, and nothing is lost for what the other threads can reach:
\* a prediction step writes only its own variables, the head of
\* prediction_queue and the device log, none of which a reader, sender or
\* pool step reads; a sender or pool step only takes from
\* instant_update_queue, which no other step reads; and no step of one
\* worker disables a step of another.
Runs(thread) ==
    \/ sched = "all"
    \/ sched = "ingest" /\ thread \in {"sender", "pool"}
    \/ sched = "actuate" /\ thread = "predict"

Next ==
    \/ MainStep
    \/ ReaderStep
    \/ Runs("sender") /\ SenderStep
    \/ Runs("pool") /\ PoolStep
    \/ Runs("predict") /\ PredictStep

\* What the device sends: for the reader every script, for the delivery side
\* the scenario and the mixed script, for the prediction side two batches.
InputsReader == {ScriptSame, ScriptMixed, Take(ScriptValid, MaxLines)}
InputsIngest == {ScriptSame, ScriptMixed}
InputsActuate == {Take(ScriptValid, 2 * READINGS_BUFFER)}

\* The whole program.
Init == InitWith({"all"}, InputsReader, {<<>>})

Spec == Init /\ [][Next]_vars

\* main and the reader thread.
NextReader == MainStep \/ ReaderStep

SpecReader ==
    InitWith({"ingest", "actuate"}, InputsReader, {<<>>}) /\ [][NextReader]_vars

\* main, the reader and the delivery side.
NextIngest == MainStep \/ ReaderStep \/ SenderStep \/ PoolStep

SpecIngest == InitWith({"ingest"}, InputsIngest, {<<>>}) /\ [][NextIngest]_vars

\* main, the reader and the prediction side.
NextActuate == MainStep \/ ReaderStep \/ PredictStep

SpecActuate ==
    InitWith({"actuate"}, InputsActuate, {<<>>}) /\ [][NextActuate]_vars

\* The parser alone, on every line of ParseLines.
Minus(text) == <<"-">> \o text

FieldTexts ==
    { Minus(Dec(11)), Minus(Dec(10)), Dec(0), Dec(14), Dot(14, 5), Dec(100),
      Dot(100, 5), Dec(2000), Dec(2001), <<"a", "b", "c">>, <<"n", "a", "n">>,
      <<>> }

OddFields == {Dec(0), <<"a", "b", "c">>, <<>>}

ParseLines ==
    {Join(<<a, b, c, d>>) : a \in FieldTexts, b \in FieldTexts,
                            c \in FieldTexts, d \in FieldTexts}
      \cup {Join(f) : f \in UNION {[1..n -> OddFields] : n \in {1, 2, 3, 5}}}
      \cup {LineScenario, <<>>}

SpecParse == InitWith({"all"}, {<<>>}, ParseLines) /\ [][ParseLine]_vars

\* The classification alone, on labels put together from the words the
\* backend's labels are made of, in several spellings, joined with and
\* without a space.
QualityWords ==
    { HIGH_RISK, <<"h", "i", "g", "h", " ", "r", "i", "s", "k">>,
      <<"H", "i", "g", "h", " ", "R", "i", "s", "k">>,
      MEDIUM_RISK, <<"m", "e", "d", "i", "u", "m", " ", "r", "i", "s", "k">>,
      <<"M", "e", "d", "i", "u", "m", " ", "R", "i", "s", "k">>,
      LabelLow, LabelMedium, LabelHigh,
      <<"H", "I", "G", "H">>, <<"R", "I", "S", "K">>,
      <<"M", "e", "d", "i", "u", "m">>, <<"S", "a", "f", "e">>, <<>> }

QualityLabels ==
    {a \o sep \o b : a \in QualityWords, sep \in {<<>>, <<" ">>},
                     b \in QualityWords}

SpecClassify ==
    InitWith({"all"}, {<<>>}, QualityLabels) /\ [][Classify]_vars

\* Shutdown.  The scheduler is fair to every worker it runs, a POST ends
\* within its timeout and a queue get within its own; nothing makes the
\* interrupt come or main go on.
SpecStop ==
    /\ InitWith({"ingest", "actuate"}, {ScriptSame}, {<<>>})
    /\ [][Next]_vars
    /\ WF_vars(ReaderStep)
    /\ WF_vars(Runs("sender") /\ SenderStep)
    /\ WF_vars(Runs("pool") /\ PoolStep)
    /\ WF_vars(Runs("predict") /\ PredictStep)

\* The status lines alone, on results whose label and top disease name
\* have every length around the two cuts, and whose disease list is empty
\* (result.get('disease_risks') is as falsy for a missing key as for []),
\* or has one or two entries.
NameCryptosporidiosis == <<"C", "r", "y", "p", "t", "o", "s", "p", "o", "r", "i", "d", "i", "o", "s", "i", "s">>
NameEColi == <<"E", ".", " ", "c", "o", "l", "i", " ", "I", "n", "f", "e", "c", "t", "i", "o", "n">>

StatusQualities ==
    {Str(Take(LabelMedium, n)) : n \in 0..Len(LabelMedium)}
      \cup {Str(LabelLow), Str(LabelHigh)}

StatusNames ==
    {Str(Take(NameCryptosporidiosis, n)) : n \in {0, 1, 15, 16, 17}}
      \cup {Str(NameDiarrhea), Str(NameEColi)}

StatusDiseaseLists ==
    {<<>>}
      \cup {<<[name |-> a, complete |-> TRUE]>> : a \in StatusNames}
      \cup {<<[name |-> a, complete |-> TRUE],
              [name |-> Str(NameEColi), complete |-> TRUE]>> :
               a \in {Str(NameDiarrhea), Str(NameCryptosporidiosis)}}

StatusResults ==
    {[prediction |-> [quality |-> q, confidence |-> Conf95],
      disease_risks |-> d] : q \in StatusQualities, d \in StatusDiseaseLists}

SpecStatus == InitWith({"all"}, {<<>>}, StatusResults) /\ [][StatusLines]_vars

\* The interrupt has come.  A join returns within its two seconds, a write
\* to the device returns or raises and the two close calls return, so main
\* goes on; nothing is assumed of the workers, which may never take a step.
SpecShutdown ==
    /\ InitWith({"ingest", "actuate"}, {ScriptSame}, {<<>>})
    /\ [][Next]_vars
    /\ WF_vars(stop_threads /\ MainStep)

(***************************************************************************)
(* Properties                                                               *)
(***************************************************************************)
\* What the reader makes of a delivered entry: the line is stripped, an
\* empty one is passed over, any other is parsed.
ParsedOf(entry) ==
    IF strip(entry.line) = <<>> THEN None
    ELSE parse_sensor_line(strip(entry.line))

\* The readings accepted among the delivered entries, in the order of
\* delivery, each with the time it was handled.
RECURSIVE AcceptedOf(_)
AcceptedOf(entries) ==
    IF entries = <<>> THEN <<>>
    ELSE With(ParsedOf(Head(entries)), LAMBDA reading :
            IF reading = None THEN <<>>
            ELSE <<WithTime(reading, Head(entries).at)>>)
         \o AcceptedOf(Tail(entries))

\* q is what is left of log once its first items have been taken.
IsSuffix(q, log) ==
    /\ Len(q) <= Len(log)
    /\ q = SubSeq(log, Len(log) - Len(q) + 1, Len(log))

RelayAttempts == {i \in DOMAIN dev_writes : dev_writes[i].cmd = "RELAY:ON"}
RelayWritten == {i \in RelayAttempts : dev_writes[i].ok}
BuzzerAttempts(k) ==
    {i \in DOMAIN dev_writes :
        dev_writes[i].cmd = "BUZZER:ON" /\ dev_writes[i].batch = k}
\* The actuator writes of batch k that raised.
ActuatorRaised(k) ==
    {i \in DOMAIN dev_writes :
        /\ dev_writes[i].batch = k
        /\ dev_writes[i].cmd \in {"RELAY:ON", "BUZZER:ON"}
        /\ ~dev_writes[i].ok}

\* The prediction worker has handled the batch answered last to the end.
Processed == answered # None /\ prediction_item = None

\* C1: the latch relay_permanently_off starts false and only ever goes from
\* false to true: no step takes it from true back to false, so it is set at
\* most once in the life of the process.
C1_LatchOnlySets ==
    /\ relay_permanently_off = FALSE
    /\ [][relay_permanently_off => relay_permanently_off']_vars

\* The first batch latched the relay, and the second has been handled to the
\* end with the latch still set.
C1_Witness ==
    /\ relay_permanently_off
    /\ Processed
    /\ answered.count = 2 * READINGS_BUFFER
    /\ \E i \in RelayWritten : dev_writes[i].batch = READINGS_BUFFER

\* C2 (as amended): RELAY:ON is written at most once and, once written, is
\* never attempted again; and a high classification handled to the end with
\* the device link open has RELAY:ON written by then, unless the RELAY:ON
\* write of that very batch raised.
C2_RelayOnce ==
    /\ Cardinality(RelayWritten) <= 1
    /\ \A i \in RelayWritten : \A j \in RelayAttempts : j <= i
    /\ (Processed /\ answered.outcome = "high" /\ arduino_open)
         => \/ RelayWritten # {}
            \/ \E i \in RelayAttempts :
                  dev_writes[i].batch = answered.count /\ ~dev_writes[i].ok

\* Two batches in a row classified high, and RELAY:ON was written for the
\* first alone.
C2_Witness ==
    /\ Processed
    /\ answered.count = 2 * READINGS_BUFFER
    /\ answered.outcome = "high"
    /\ Cardinality(RelayAttempts) = 1
    /\ \E i \in RelayWritten : dev_writes[i].batch = READINGS_BUFFER
    /\ Cardinality(BuzzerAttempts(READINGS_BUFFER)) = 1

\* C2 as stated: RELAY:ON is written at most once, and for any sequence of
\* results, once a high classification has been handled, it has been
\* written exactly once.
C2_AsStated ==
    /\ Cardinality(RelayWritten) <= 1
    /\ (Processed /\ answered.outcome = "high")
         => Cardinality(RelayWritten) = 1

\* C3 (as amended): once a successful prediction has been handled to the
\* end, a low classification has had no BUZZER:ON attempted, and a medium
\* or high one, handled with the device link open and with no actuator
\* write of the batch raising, has had BUZZER:ON written exactly once,
\* whatever the latch.
C3_BuzzerByLevel ==
    (Processed /\ answered.outcome # "failed")
      => /\ answered.outcome = "low" => BuzzerAttempts(answered.count) = {}
         /\ ( /\ answered.outcome \in {"medium", "high"}
              /\ arduino_open
              /\ ActuatorRaised(answered.count) = {} )
              => /\ Cardinality(BuzzerAttempts(answered.count)) = 1
                 /\ \A i \in BuzzerAttempts(answered.count) : dev_writes[i].ok

\* The relay was latched by the first batch, and the second, classified
\* medium, still had its BUZZER:ON written.
C3_Witness ==
    /\ Processed
    /\ answered.count = 2 * READINGS_BUFFER
    /\ answered.outcome = "medium"
    /\ relay_permanently_off
    /\ \E i \in RelayWritten : dev_writes[i].batch = READINGS_BUFFER
    /\ \E i \in BuzzerAttempts(2 * READINGS_BUFFER) : dev_writes[i].ok

\* C3 as stated: every successful prediction classified medium or high has
\* BUZZER:ON written, and one classified low has none.
C3_AsStated ==
    (Processed /\ answered.outcome # "failed")
      => /\ answered.outcome = "low" => BuzzerAttempts(answered.count) = {}
         /\ answered.outcome \in {"medium", "high"}
              => \E i \in BuzzerAttempts(answered.count) : dev_writes[i].ok

\* C4: whatever lines the reader has been fed, prediction_queue has received
\* one item for every READINGS_BUFFER accepted readings and none for a
\* partial group, and the k-th item carries the last accepted reading of
\* the k-th group.
C4_BatchPerGroup ==
    /\ Len(batch_log) = Len(AcceptedOf(consumed)) \div READINGS_BUFFER
    /\ \A k \in 1..Len(batch_log) :
          batch_log[k].data = AcceptedOf(consumed)[k * READINGS_BUFFER]

\* Two groups are complete, and the item of each carries the last reading
\* of its group, which is neither the first reading nor the other item's.
C4_Witness ==
    /\ Len(batch_log) = 2
    /\ batch_log[1].data # AcceptedOf(consumed)[1]
    /\ batch_log[2].data # batch_log[1].data

\* C5: every accepted reading is put on instant_update_queue exactly once,
\* and both queues hold their items in the order the lines arrived: a step
\* that takes a line puts its reading, if it is accepted, at that moment and
\* never otherwise, on the batch queue at most the reading just taken; a
\* queue is what is left of the puts once its first items were taken; and
\* every reading put is on the queue or with the delivery side, once.
C5_ArrivalOrder ==
    /\ [](/\ IsSuffix(instant_update_queue, instant_log)
          /\ IsSuffix(prediction_queue, batch_log)
          /\ Len(instant_log) =
                Len(instant_update_queue) + Len(executor_queue)
                  + BagCardinality(in_flight) + BagCardinality(posted))
    /\ [][ IF consumed' = consumed
           THEN UNCHANGED <<instant_log, batch_log>>
           ELSE \E entry \in {consumed'[Len(consumed')]} :
                \E reading \in {ParsedOf(entry)} :
                   IF reading = None
                   THEN UNCHANGED <<instant_log, batch_log>>
                   ELSE /\ instant_log' =
                             Append(instant_log, WithTime(reading, entry.at))
                        /\ \/ batch_log' = batch_log
                           \/ /\ Len(batch_log') = Len(batch_log) + 1
                              /\ SubSeq(batch_log', 1, Len(batch_log)) = batch_log
                              /\ batch_log'[Len(batch_log')].data =
                                    WithTime(reading, entry.at) ]_vars

\* The scenario: five identical valid lines gave five instant items, all
\* still queued in order, and one batch item.
C5_Witness ==
    /\ consumed = ScriptSame
    /\ Len(instant_update_queue) = READINGS_BUFFER
    /\ \A i \in 1..Len(instant_update_queue) : instant_update_queue[i].time = i
    /\ Len(prediction_queue) = 1

\* C6: a step in which the reader takes a line that is empty or that the
\* parser rejects changes neither queue, nor reading_count, nor the pending
\* buffer, and leaves the reader at its loop test, ready for the next line.
C6_RejectedLineNoEffect ==
    [][ ( /\ consumed' # consumed
          /\ ParsedOf(consumed'[Len(consumed')]) = None )
        => /\ UNCHANGED <<reading_count, sensor_buffer, instant_update_queue,
                          prediction_queue>>
           /\ readerPc' = "check" ]_vars

\* A rejected line was taken in the middle of a group, and the reader went
\* on to accept the line after it.
C6_Witness ==
    \E i \in 1..(Len(consumed) - 1) :
        /\ ParsedOf(consumed[i]) = None
        /\ ParsedOf(consumed[i + 1]) # None
        /\ reading_count = Len(AcceptedOf(consumed))
        /\ sensor_buffer # <<>>

\* C7: parse_sensor_line returns a reading exactly when the line has four
\* comma-separated fields, each of them a number, with turbidity in
\* [0,100], tds in [0,2000], ph in [0,14] and temperature in [-10,100], the
\* bounds included; the reading's fields are then the parsed values; in
\* every other case it returns None, and it never raises.
C7_ParseIff ==
    p_result # Unset =>
        LET f == split(p_line) IN
        IF /\ Len(f) = 4
           /\ \A i \in 1..4 : float(f[i]).kind # "ValueError"
           /\ Between(0, float(f[1]), 100)
           /\ Between(0, float(f[2]), 2000)
           /\ Between(0, float(f[3]), 14)
           /\ Between(-10, float(f[4]), 100)
        THEN p_result = [tag |-> "reading", turbidity |-> float(f[1]),
                         tds |-> float(f[2]), ph |-> float(f[3]),
                         temperature |-> float(f[4])]
        ELSE p_result = None

\* A line with every field on a bound of its range was accepted.
C7_Witness ==
    /\ p_line = Join(<<Dec(100), Dec(2000), Dec(14), Minus(Dec(10))>>)
    /\ p_result # Unset
    /\ p_result # None
    /\ p_result.ph = [kind |-> "fin", n |-> 14, d |-> 0]
    /\ p_result.temperature = [kind |-> "fin", n |-> -10, d |-> 0]

\* C8: when the prediction call of a batch has failed (timeout, transport
\* error, status other than 200, or a payload that cannot be decoded into a
\* PredictionResult), no command is ever written to the device for that
\* batch.
C8_FailedNoCommand ==
    (answered # None /\ answered.outcome = "failed")
      => \A i \in DOMAIN dev_writes : dev_writes[i].batch # answered.count

\* C9: a slow display endpoint stalls nothing: whenever the reader is in its
\* loop body with a line waiting, its step of taking and enqueuing the line
\* is enabled, and whenever the sender is at its get, its step of dequeuing
\* and submitting to the pool is enabled, whatever the pool is doing.
C9_IngestNeverStalls ==
    /\ (ProcessAlive /\ readerPc = "body" /\ arduino_open /\ serial_in # <<>>)
         => ENABLED ReaderLine
    /\ (ProcessAlive /\ senderPc = "get") => ENABLED SenderGet

\* Both pool workers are inside a POST, more work is already waiting for
\* them, and the reader and the sender each have an item to move.
C9_Witness ==
    /\ BagCardinality(in_flight) = MAX_WORKERS
    /\ executor_queue # <<>>
    /\ ProcessAlive /\ arduino_open
    /\ readerPc = "body" /\ serial_in # <<>>
    /\ ParsedOf(Head(serial_in)) # None
    /\ senderPc = "get" /\ instant_update_queue # <<>>

\* Every worker the schedule runs has left its loop and ended.
WorkersExited ==
    /\ readerPc = "stopped"
    /\ Runs("sender") => senderPc = "stopped"
    /\ Runs("predict") => predPc = "stopped"

\* A worker at its loop test with the flag set can only leave the loop.
ExitsAtLoopTest ==
    /\ (stop_threads /\ readerPc = "check") => readerPc' \in {"check", "stopped"}
    /\ (stop_threads /\ senderPc = "check") => senderPc' \in {"check", "shutdown"}
    /\ (stop_threads /\ predPc = "check") => predPc' \in {"check", "stopped"}

\* C10 (as amended): stop_threads, once set, stays set; a worker that comes
\* to its loop test with the flag set starts no further pass; and once the
\* flag is set every worker leaves its loop and ends, unless the process
\* ends first.
C10_Cancellation ==
    /\ [][stop_threads => stop_threads']_vars
    /\ [][ExitsAtLoopTest]_vars
    /\ stop_threads ~> (WorkersExited \/ ~ProcessAlive)

\* The reader and the prediction worker have both seen the flag and ended,
\* after a batch was handled, while main is still shutting down.
C10_Witness ==
    /\ stop_threads
    /\ ProcessAlive
    /\ readerPc = "stopped"
    /\ predPc = "stopped"
    /\ answered # None

\* C10 as stated: once the flag is set every worker leaves its loop and
\* ends.
C10_AsStated == stop_threads ~> WorkersExited

\* C11: the device link and the pooled HTTP session are each released by
\* the time the process ends, on every way out of main, the failed connect
\* included.
C11_ReleasedAtExit ==
    mainPc = "done" => (~session_open /\ ~arduino_open)

\* C12: when the device link cannot be opened, main ends at once; no worker
\* is started then or later, no command is written to the device and
\* nothing is put on either queue.
C12_FailedConnectIsFatal ==
    /\ [][ (mainPc = "connect" /\ ~arduino_open')
             => /\ mainPc' = "done"
                /\ readerPc' = "off" /\ senderPc' = "off" /\ predPc' = "off"
                /\ dev_writes' = <<>>
                /\ instant_log' = <<>> /\ batch_log' = <<>> ]_vars
    /\ [][ mainPc = "done"
             => /\ mainPc' = "done"
                /\ UNCHANGED <<readerPc, senderPc, predPc, dev_writes,
                               instant_log, batch_log, instant_update_queue,
                               prediction_queue>> ]_vars

\* The connect failed and the process has ended with nothing started,
\* written or queued, the device's lines still unread.
C12_Witness ==
    /\ mainPc = "done"
    /\ readerPc = "off" /\ senderPc = "off" /\ predPc = "off"
    /\ ~arduino_open
    /\ dev_writes = <<>>
    /\ consumed = <<>> /\ serial_in # <<>>
    /\ instant_update_queue = <<>> /\ prediction_queue = <<>>

\* The commands the prediction thread has sent to the device, in order.
PredictWrites == SelectSeq(dev_writes, LAMBDA w : w.by = "predict")

\* C13: the batch queue is first-in first-out and the prediction thread
\* works on one batch at a time, in the order the batches were enqueued:
\* the batch in hand followed by the waiting ones is a tail of everything
\* enqueued, a batch is taken only from the head of the queue and only when
\* none is in hand, every command is sent for the batch in hand, and the
\* commands for an earlier batch all come before those for a later one.
C13_BatchesInOrder ==
    /\ [](/\ prediction_item # None
              => IsSuffix(<<prediction_item>> \o prediction_queue, batch_log)
          /\ \A i, j \in DOMAIN PredictWrites :
                i < j => PredictWrites[i].batch <= PredictWrites[j].batch)
    /\ [][ /\ (prediction_item' # None /\ prediction_item' # prediction_item)
                => /\ prediction_item = None
                   /\ prediction_queue # <<>>
                   /\ prediction_item' = Head(prediction_queue)
                   /\ prediction_queue' = Tail(prediction_queue)
           /\ (/\ Len(dev_writes') = Len(dev_writes) + 1
               /\ dev_writes'[Len(dev_writes')].by = "predict")
                => /\ prediction_item # None
                   /\ dev_writes'[Len(dev_writes')].batch
                        = prediction_item.count
         ]_vars

\* Two batches were processed, each with commands sent, the second after
\* the first.
C13_Witness ==
    /\ prediction_item = None
    /\ answered # None /\ answered.count = 2 * READINGS_BUFFER
    /\ \E i, j \in DOMAIN PredictWrites :
          /\ PredictWrites[i].batch = READINGS_BUFFER
          /\ PredictWrites[j].batch = 2 * READINGS_BUFFER

\* The items of a sequence, as a set.
Range(seq) == {seq[i] : i \in DOMAIN seq}

\* C14: instant delivery is best-effort with no retry.  An item taken off
\* the instant queue is POSTed at most once and is on no queue afterwards;
\* a POST that ends, whatever its outcome, only frees its pool worker: it
\* puts nothing back and stops neither the pool nor the delivery worker,
\* which ends only on cancellation; a free pool worker with a submitted item
\* waiting can always take it.
C14_BestEffortNoRetry ==
    /\ [](/\ \A item \in BagToSet(posted) :
                /\ CopiesIn(item, posted) = 1
                /\ item \notin Range(instant_update_queue)
                /\ item \notin Range(executor_queue)
                /\ ~BagIn(item, in_flight)
          /\ \A item \in BagToSet(in_flight) :
                /\ CopiesIn(item, in_flight) = 1
                /\ item \notin Range(instant_update_queue)
                /\ item \notin Range(executor_queue)
          /\ senderPc = "stopped" => stop_threads
          /\ (executor_queue # <<>> /\ BagCardinality(in_flight) < MAX_WORKERS)
                => ENABLED PoolTake)
    /\ [][ BagCardinality(in_flight') < BagCardinality(in_flight)
             => /\ \E item \in BagToSet(in_flight) :
                      /\ in_flight' = in_flight (-) SetToBag({item})
                      /\ posted' = posted (+) SetToBag({item})
                /\ UNCHANGED <<instant_update_queue, executor_queue,
                               senderPc>> ]_vars

\* Two POSTs have ended and another is in flight while the delivery worker
\* is still in its loop.
C14_Witness ==
    /\ BagCardinality(posted) >= 2
    /\ in_flight # EmptyBag
    /\ senderPc \in {"check", "get"}
    /\ ~stop_threads

\* C15 (as amended): once a prediction classified high has been handled to
\* the end with the device link open, the latch is set and RELAY:ON has
\* been written, unless the RELAY:ON write of that batch raised; and the
\* latch changes only while a batch is in hand whose answer is classified
\* neither low nor medium.
C15_HighLatches ==
    /\ []((Processed /\ answered.outcome = "high" /\ arduino_open)
            => \/ relay_permanently_off /\ RelayWritten # {}
               \/ \E i \in RelayAttempts :
                     /\ dev_writes[i].batch = answered.count
                     /\ ~dev_writes[i].ok)
    /\ [][ relay_permanently_off' # relay_permanently_off
             => /\ prediction_item # None
                /\ answered # None
                /\ answered.count = prediction_item.count
                /\ answered.outcome \notin {"low", "medium"} ]_vars

\* The first batch was classified high and handled to the end: the latch
\* is set and RELAY:ON was written for it.
C15_Witness ==
    /\ Processed
    /\ answered.count = READINGS_BUFFER
    /\ answered.outcome = "high"
    /\ relay_permanently_off
    /\ \E i \in RelayWritten : dev_writes[i].batch = READINGS_BUFFER

\* C15 as stated: after any prediction classified high has been handled,
\* the latch is set and RELAY:ON has been issued.
C15_AsStated ==
    (Processed /\ answered.outcome = "high")
      => (relay_permanently_off /\ RelayAttempts # {})

\* The step appends a command of the prediction thread whose write raised.
PredictWriteRaised ==
    /\ Len(dev_writes') = Len(dev_writes) + 1
    /\ dev_writes'[Len(dev_writes')].by = "predict"
    /\ ~dev_writes'[Len(dev_writes')].ok

\* C16: a write to the device that raises, on any command of the prediction
\* thread, does not end the thread: the thread goes on to the status lines
\* or back to its loop test, it ends only after cancellation, and while the
\* process lives it always has a next step, so the next batch is taken and
\* handled.
C16_WriteErrorSurvived ==
    /\ [][ PredictWriteRaised
             => predPc' \in {"send_to_arduino", "check"} ]_vars
    /\ [](/\ predPc = "stopped" => stop_threads
          /\ (ProcessAlive /\ predPc \notin {"off", "stopped"})
                => ENABLED PredictStep)

\* A write of the first batch raised, and the second batch was then handled
\* to the end with all its status lines written.
C16_Witness ==
    /\ Processed
    /\ answered.count = 2 * READINGS_BUFFER
    /\ \E i \in DOMAIN PredictWrites :
          /\ PredictWrites[i].batch = READINGS_BUFFER
          /\ ~PredictWrites[i].ok
    /\ \E i, j \in DOMAIN PredictWrites :
          /\ PredictWrites[i].batch = 2 * READINGS_BUFFER
          /\ PredictWrites[i].cmd = "RISK" /\ PredictWrites[i].ok
          /\ PredictWrites[j].batch = 2 * READINGS_BUFFER
          /\ PredictWrites[j].cmd = "ISSUE" /\ PredictWrites[j].ok

\* x is a finite number with lo <= x <= hi.
FiniteWithin(lo, x, hi) ==
    /\ DOMAIN x = {"kind", "n", "d"}
    /\ x.kind = "fin"
    /\ x.n >= lo * Pow10(x.d)
    /\ x.n <= hi * Pow10(x.d)

\* item is a reading with its four fields in range and its time stamp, the
\* stamp and the fields being those of a line the reader has consumed.
ValidatedReading(item) ==
    /\ DOMAIN item = {"turbidity", "tds", "ph", "temperature", "time"}
    /\ FiniteWithin(0, item.turbidity, 100)
    /\ FiniteWithin(0, item.tds, 2000)
    /\ FiniteWithin(0, item.ph, 14)
    /\ FiniteWithin(-10, item.temperature, 100)
    /\ \E i \in DOMAIN consumed :
          /\ item.time = consumed[i].at
          /\ Len(split(strip(consumed[i].line))) = 4

\* C17: every item on the instant queue is a validated reading with its
\* time stamp, and every item on the batch queue wraps one, with the
\* positive count of accepted readings and a time stamp; no None, no
\* rejected and no partial reading is on either queue.
C17_QueuesCarryValidated ==
    /\ \A i \in DOMAIN instant_update_queue :
          ValidatedReading(instant_update_queue[i])
    /\ \A i \in DOMAIN prediction_queue :
          /\ DOMAIN prediction_queue[i] = {"data", "count", "time"}
          /\ ValidatedReading(prediction_queue[i].data)
          /\ prediction_queue[i].count \in 1..Len(consumed)
          /\ prediction_queue[i].time = prediction_queue[i].data.time

\* Lines that are no number, out of range and short have been read and
\* passed over, and both queues hold items.
C17_Witness ==
    /\ \E i \in DOMAIN consumed : consumed[i].line = LineOutOfRange
    /\ \E i \in DOMAIN consumed : consumed[i].line = LineNonNumeric
    /\ \E i \in DOMAIN consumed : consumed[i].line = LineShort
    /\ Len(instant_update_queue) = READINGS_BUFFER
    /\ Len(prediction_queue) = 1

\* The place of a command in the order of one batch.
Rank(cmd) ==
    CASE cmd = "RELAY:ON" -> 1 [] cmd = "BUZZER:ON" -> 2
      [] cmd = "RISK" -> 3 [] cmd = "ISSUE" -> 4

\* The commands of kind cmd written for batch k by the prediction thread.
WrittenFor(k, cmd) ==
    {i \in DOMAIN PredictWrites :
        /\ PredictWrites[i].batch = k
        /\ PredictWrites[i].cmd = cmd
        /\ PredictWrites[i].ok}

\* The commands of the prediction thread for batch k whose write raised.
RaisedFor(k) ==
    {i \in DOMAIN PredictWrites :
        PredictWrites[i].batch = k /\ ~PredictWrites[i].ok}

\* C18 (as amended): the commands the prediction thread sends for one batch
\* come in the order RELAY:ON, BUZZER:ON, RISK, ISSUE, none of them twice,
\* so the actuator is driven before the status is written; and a successful
\* prediction handled to the end with the device link open and no write of
\* the batch raising has exactly one RISK line and exactly one ISSUE line
\* written.
C18_ActuatorThenStatus ==
    /\ \A i, j \in DOMAIN PredictWrites :
          (i < j /\ PredictWrites[i].batch = PredictWrites[j].batch)
             => Rank(PredictWrites[i].cmd) < Rank(PredictWrites[j].cmd)
    /\ ( /\ Processed /\ answered.outcome # "failed"
         /\ arduino_open
         /\ RaisedFor(answered.count) = {} )
         => /\ Cardinality(WrittenFor(answered.count, "RISK")) = 1
            /\ Cardinality(WrittenFor(answered.count, "ISSUE")) = 1

\* A high prediction on the first batch had exactly the four commands
\* written, in order.
C18_Witness ==
    /\ Processed
    /\ answered.count = READINGS_BUFFER
    /\ answered.outcome = "high"
    /\ Len(PredictWrites) = 4
    /\ \A i \in 1..4 : PredictWrites[i].ok /\ Rank(PredictWrites[i].cmd) = i

\* C18 as stated: every successful prediction handled to the end has
\* exactly one RISK line and exactly one ISSUE line written.
C18_AsStated ==
    (Processed /\ answered.outcome # "failed")
      => /\ Cardinality(WrittenFor(answered.count, "RISK")) = 1
         /\ Cardinality(WrittenFor(answered.count, "ISSUE")) = 1

\* The lower-case form of an upper-case letter of the two keywords.
SmallOf(c) ==
    CASE c = "H" -> "h" [] c = "I" -> "i" [] c = "G" -> "g" [] c = "R" -> "r"
      [] c = "S" -> "s" [] c = "K" -> "k" [] c = "M" -> "m" [] c = "E" -> "e"
      [] c = "D" -> "d" [] c = "U" -> "u" [] OTHER -> c

\* word, given in upper case, occurs in label in some mix of cases.
OccursAnyCase(word, label) ==
    \E at \in 1..(Len(label) - Len(word) + 1) :
       \A k \in 1..Len(word) :
          label[at + k - 1] \in {word[k], SmallOf(word[k])}

\* C19: a quality label is classified high exactly when it contains
\* "HIGH RISK" in any mix of cases, whether or not it also contains
\* "MEDIUM RISK"; medium exactly when it contains "MEDIUM RISK" but not
\* "HIGH RISK"; and low otherwise.
C19_RiskPrecedence ==
    p_result # Unset =>
       p_result.level =
          IF OccursAnyCase(HIGH_RISK, p_line) THEN "high"
          ELSE IF OccursAnyCase(MEDIUM_RISK, p_line) THEN "medium"
          ELSE "low"

\* A label with "medium risk" before "High Risk" has been classified high.
C19_Witness ==
    /\ p_line = <<"m", "e", "d", "i", "u", "m", " ", "r", "i", "s", "k", " ", "H", "i", "g", "h", " ", "R", "i", "s", "k">>
    /\ p_result # Unset
    /\ p_result.level = "high"

\* Where item stands in the order of enqueueing.
EnqueuedAt(item) == CHOOSE i \in DOMAIN instant_log : instant_log[i] = item

\* C20: the pool keeps no delivery order.  Whenever two readings are being
\* POSTed at once, the POST of either can end next, that of the one
\* enqueued later included, while the earlier one is still in flight.
C20_NoDeliveryOrder ==
    \A earlier, later \in BagToSet(in_flight) :
       EnqueuedAt(earlier) < EnqueuedAt(later)
          => ENABLED (/\ PoolDone
                      /\ posted' = posted (+) SetToBag({later})
                      /\ BagIn(earlier, in_flight'))

\* The POST of a reading has ended while that of a reading enqueued before
\* it is still in flight.
C20_Witness ==
    \E later \in BagToSet(posted) :
    \E earlier \in BagToSet(in_flight) :
       EnqueuedAt(earlier) < EnqueuedAt(later)

\* C21: when the reader sees the cancellation with one to N-1 readings in
\* its buffer it ends without enqueueing a batch for them: the step that
\* ends it changes neither queue nor the buffer, nothing is enqueued by it
\* afterwards, and each buffered reading is on the record of the instant
\* queue but is the reading of no batch ever enqueued.
C21_PartialBatchDropped ==
    /\ [][ (readerPc' = "stopped" /\ readerPc # "stopped")
             => /\ stop_threads
                /\ UNCHANGED <<sensor_buffer, queueVars>> ]_vars
    /\ [][ readerPc = "stopped"
             => UNCHANGED <<readerPc, sensor_buffer, reading_count, batch_log,
                            instant_log>> ]_vars
    /\ [](readerPc = "stopped"
            => /\ Len(sensor_buffer) < READINGS_BUFFER
               /\ Len(instant_log)
                    = READINGS_BUFFER * Len(batch_log) + Len(sensor_buffer)
               /\ \A i \in DOMAIN sensor_buffer :
                     /\ \E j \in DOMAIN instant_log :
                           instant_log[j] = sensor_buffer[i]
                     /\ \A j \in DOMAIN batch_log :
                           batch_log[j].data # sensor_buffer[i])

\* The reader has ended on cancellation with a batch enqueued earlier and
\* readings left in its buffer.
C21_Witness ==
    /\ readerPc = "stopped"
    /\ Len(sensor_buffer) \in 1..(READINGS_BUFFER - 1)
    /\ Len(batch_log) = 1
    /\ Len(instant_log) = READINGS_BUFFER + Len(sensor_buffer)

\* main is past the interrupt.
ShuttingDown ==
    mainPc \in {"join_reader", "join_predict", "join_sender", "bye_risk",
                "bye_issue", "close_session", "close_arduino", "return",
                "done"}

\* C22: shutdown is best-effort and always completes.  The flag is set
\* before the first join; main goes from the joins to the final status
\* lines without looking at the workers; and once the flag is set main
\* always gets to its end with the session and the device link closed,
\* whatever the workers do or fail to do.
C22_ShutdownCompletes ==
    /\ []((ShuttingDown /\ arduino_open) => stop_threads)
    /\ [](mainPc \in {"join_reader", "join_predict", "join_sender"}
            => ENABLED MainStep)
    /\ (stop_threads ~> (mainPc = "done" /\ ~session_open /\ ~arduino_open))

\* main has ended with everything released while the prediction worker is
\* still inside its prediction call and the reader has not ended.
C22_Witness ==
    /\ mainPc = "done"
    /\ stop_threads
    /\ ~session_open /\ ~arduino_open
    /\ predPc = "post"
    /\ readerPc # "stopped"

\* C23: between the reader's passes its buffer holds fewer than
\* READINGS_BUFFER readings, as many as reading_count modulo
\* READINGS_BUFFER; the pass that accepts the reading which would make it
\* READINGS_BUFFER long enqueues a batch and leaves the buffer empty.
C23_BufferBounded ==
    /\ [](/\ Len(sensor_buffer) \in 0..(READINGS_BUFFER - 1)
          /\ Len(sensor_buffer) = reading_count % READINGS_BUFFER)
    /\ [][ (reading_count' # reading_count
              /\ Len(sensor_buffer) = READINGS_BUFFER - 1)
             => /\ sensor_buffer' = <<>>
                /\ Len(batch_log') = Len(batch_log) + 1
                /\ Len(prediction_queue') = Len(prediction_queue) + 1 ]_vars

\* A batch was emitted and the buffer emptied, and one more reading has
\* been accepted since, malformed lines having come between the readings.
C23_Witness ==
    /\ reading_count = READINGS_BUFFER + 1
    /\ Len(sensor_buffer) = 1
    /\ Len(batch_log) = 1
    /\ \E i \in DOMAIN consumed : consumed[i].line = LineShort

\* The smaller of two numbers.
Smaller(a, b) == IF a < b THEN a ELSE b

\* text is the first `cut` characters of whole, or all of whole if shorter.
IsCutOf(text, whole, cut) ==
    /\ Len(text) = Smaller(Len(whole), cut)
    /\ \A i \in 1..Len(text) : text[i] = whole[i]

\* C24: for a successful prediction the RISK line is the first 12
\* characters of the label at most, a space, the confidence and "%", and
\* the ISSUE line is the first 16 characters at most of the first disease
\* name, or "Safe to use" exactly when there is no disease in the list.
C24_StatusWidth ==
    p_result # Unset =>
       \E risk \in {p_result.lines[1].arg} :
       \E issue \in {p_result.lines[2].arg} :
       \E label \in {p_line.prediction.quality.s} :
       \E cut \in {Smaller(Len(label), 12)} :
          /\ Len(p_result.lines) = 2
          /\ p_result.lines[1].cmd = "RISK"
          /\ p_result.lines[2].cmd = "ISSUE"
          /\ IsCutOf(SubSeq(risk, 1, cut), label, 12)
          /\ SubSeq(risk, cut + 1, Len(risk))
               = <<" ">> \o p_line.prediction.confidence.repr \o <<"%">>
          /\ IF p_line.disease_risks = <<>>
             THEN issue = TextSafeToUse
             ELSE /\ IsCutOf(issue, p_line.disease_risks[1].name.s, 16)
                  /\ issue # TextSafeToUse

\* A 14-character label and a 17-character top name, both cut.
C24_Witness ==
    /\ p_result # Unset
    /\ p_line.prediction.quality.s = LabelMedium
    /\ Len(p_line.disease_risks) = 2
    /\ p_line.disease_risks[1].name.s = NameCryptosporidiosis
    /\ Len(p_result.lines[1].arg) = 12 + 1 + Len(Conf95.repr) + 1
    /\ Len(p_result.lines[2].arg) = 16

\* C25 (as amended): the latch is never set without RELAY:ON having been
\* written; once RELAY:ON has been written the latch is set, except while
\* the prediction thread is between the write and the assignment that
\* follows it; a RELAY:ON write that raises leaves the latch false and the
\* thread outside that window.
C25_LatchMatchesCommand ==
    /\ [](/\ relay_permanently_off => RelayWritten # {}
          /\ RelayWritten # {} => (relay_permanently_off \/ predPc = "latch")
          /\ predPc = "latch" => (RelayWritten # {} /\ ~relay_permanently_off))
    /\ [][ (/\ Len(dev_writes') = Len(dev_writes) + 1
            /\ dev_writes'[Len(dev_writes')].cmd = "RELAY:ON"
            /\ ~dev_writes'[Len(dev_writes')].ok)
             => (~relay_permanently_off' /\ predPc' # "latch") ]_vars

\* The RELAY:ON write of the first high batch raised and left the latch
\* false; the second high batch wrote it and set the latch.
C25_Witness ==
    /\ relay_permanently_off
    /\ \E i \in RelayAttempts :
          dev_writes[i].batch = READINGS_BUFFER /\ ~dev_writes[i].ok
    /\ \E i \in RelayWritten : dev_writes[i].batch = 2 * READINGS_BUFFER

\* C25 as stated: in every state the latch is set if and only if a
\* RELAY:ON write has completed.
C25_AsStated ==
    relay_permanently_off <=> RelayWritten # {}

C27_SingleWriter ==
    /\ (\E i \in DOMAIN dev_writes : dev_writes[i].by = "predict")
          => mainPc \notin {"connect", "hello_risk", "hello_issue"}
    /\ mainPc \in {"connect", "hello_risk", "hello_issue"}
          => (readerPc = "off" /\ senderPc = "off" /\ predPc = "off")
    /\ \A i, j, k \in DOMAIN dev_writes :
          ( /\ i < j /\ j < k
            /\ dev_writes[i].by = "predict" /\ dev_writes[k].by = "predict"
            /\ dev_writes[i].batch = dev_writes[k].batch )
             => dev_writes[j].by # "main"

\* C28: the k-th batch ever enqueued carries the count k * READINGS_BUFFER,
\* the reader's reading_count when it was made, so the counts waiting on
\* the batch queue are strictly increasing multiples of READINGS_BUFFER;
\* and reading_count is the number of items ever put on the instant queue.
C28_SequenceNumbers ==
    /\ [](/\ \A k \in DOMAIN batch_log :
                batch_log[k].count = k * READINGS_BUFFER
          /\ \A i, j \in DOMAIN prediction_queue :
                i < j => prediction_queue[i].count < prediction_queue[j].count
          /\ \A i \in DOMAIN prediction_queue :
                /\ prediction_queue[i].count % READINGS_BUFFER = 0
                /\ prediction_queue[i].count > 0
          /\ reading_count = Len(instant_log))
    /\ [][ Len(batch_log') > Len(batch_log)
             => /\ batch_log'[Len(batch_log')].count = reading_count'
                /\ prediction_queue'[Len(prediction_queue')]
                     = batch_log'[Len(batch_log')] ]_vars

\* Two batches are waiting, numbered READINGS_BUFFER and twice that, after
\* as many readings accepted and put on the instant queue.
C28_Witness ==
    /\ Len(prediction_queue) = 2
    /\ prediction_queue[1].count = READINGS_BUFFER
    /\ prediction_queue[2].count = 2 * READINGS_BUFFER
    /\ reading_count = 2 * READINGS_BUFFER
    /\ Len(instant_log) = 2 * READINGS_BUFFER

====
